---- MODULE Spec2Model ----
(***************************************************************************)
(* ReWear exchange engine: the swap/redeem state machine, the points       *)
(* ledger, item availability and dispute resolution, as implemented by     *)
(* backend/routes/swaps.js, backend/routes/items.js, backend/models/Swap.js*)
(* backend/models/User.js and the admin routes.                            *)
(*                                                                         *)
(* Every route handler is an async function whose steps are its awaited    *)
(* database calls.  A handler is described once, as a context h (what the  *)
(* handler holds in memory, and pc, its next database call) and one        *)
(* operator per database call that maps the stored documents D and h to    *)
(* the new D and h.  The reads that precede a handler's first write are    *)
(* taken at one instant.  Mongoose save() sends only the paths the handler *)
(* modified ($set) and the elements it pushed ($push), so a handler works  *)
(* on the snapshot it read (doc) and overwrites whatever is stored.        *)
(*                                                                         *)
(* Spec runs every request as a whole (one action per handler, which may   *)
(* be cut short by a failing database call); SpecConc runs the same steps  *)
(* of up to two requests interleaved at their awaits.                      *)
(***************************************************************************)
EXTENDS Integers, Sequences, FiniteSets, TLC

VARIABLES users, items, swaps, procs, requests, failures, response

vars == <<users, items, swaps, procs, requests, failures, response>>

Users == {"X", "Y", "Z"}
Items == {"a", "b", "c"}
Procs == {1, 2}

\* Bounds of the model.
MaxRequests == 4
MaxChecked == 3
MaxConcurrent == 3
MaxCalls == 8
MaxFailures == 1

\* Reward amounts.
completionBonus == 20
firstSwapBonus == 50
firstPurchaseBonus == 25
listingBonus == 10
firstItemBonus == 25

None == "none"

---------------------------------------------------------------------------
(* User.js: checkMilestones *)

milestones ==
  << [type |-> "itemsListed", levels |-> <<5, 10, 25, 50>>,
      points |-> <<50, 100, 250, 500>>],
     [type |-> "swapsCompleted", levels |-> <<3, 10, 25, 50>>,
      points |-> <<75, 200, 500, 1000>>],
     [type |-> "totalPointsEarned", levels |-> <<100, 500, 1000, 2500>>,
      points |-> <<100, 250, 500, 1000>>] >>

MilestoneIdx == {<<m, l>> : m \in DOMAIN milestones, l \in DOMAIN milestones[1].levels}

milestoneKey(k) == <<milestones[k[1]].type, milestones[k[1]].levels[k[2]]>>

statValue(u, type) ==
  CASE type = "itemsListed" -> u.itemsListed
    [] type = "swapsCompleted" -> u.swapsCompleted
    [] type = "totalPointsEarned" -> u.earned

\* this.achievements.includes(key), achievements being an array of keys.
includes(achievements, key) ==
  \E n \in DOMAIN achievements : achievements[n] = key

\* The milestones the loop finds reached and not yet in this.achievements.
newMilestones(u) ==
  {k \in MilestoneIdx :
     /\ statValue(u, milestones[k[1]].type) >= milestones[k[1]].levels[k[2]]
     /\ ~ includes(u.achievements, milestoneKey(k))}

\* The keys the loop pushes, in the order it visits them.
pushedKeys(u) ==
  LET visit == [n \in 1..(Len(milestones) * Len(milestones[1].levels)) |->
                  <<((n - 1) \div Len(milestones[1].levels)) + 1,
                    ((n - 1) % Len(milestones[1].levels)) + 1>>]
      isNew(k) == k \in newMilestones(u)
      new == SelectSeq(visit, isNew)
  IN [n \in DOMAIN new |-> milestoneKey(new[n])]

RECURSIVE sumPoints(_)
sumPoints(S) ==
  IF S = {} THEN 0
  ELSE LET k == CHOOSE x \in S : TRUE
       IN milestones[k[1]].points[k[2]] + sumPoints(S \ {k})

\* A milestone check that grants nothing.
noBonus(u) == 0

totalBonus(u) == sumPoints(newMilestones(u))

\* The document checkMilestones saves, computed on the document u it was
\* called on.
checkMilestones(u) ==
  [u EXCEPT !.points = u.points + totalBonus(u),
            !.earned = u.earned + totalBonus(u),
            !.achievements = u.achievements \o pushedKeys(u)]

---------------------------------------------------------------------------
(* Documents *)

\* The stored collections, as one value the handlers' steps transform.
DB == [users |-> users, items |-> items, swaps |-> swaps]

R(D, h) == [db |-> D, h |-> h]

Idle == [op |-> "idle", pc |-> "done"]

Done(h) == [h EXCEPT !.pc = "done"]

NewSwap(init, rcpt, ritem, iitem, type, status, pts, tl) ==
  [initiator |-> init, recipient |-> rcpt, recipientItem |-> ritem,
   initiatorItem |-> iitem, type |-> type, status |-> status, points |-> pts,
   recvI |-> FALSE, recvR |-> FALSE, dispute |-> None, expired |-> FALSE,
   shipI |-> FALSE, shipR |-> FALSE, rateI |-> 0, rateR |-> 0,
   timeline |-> tl]

\* What a handler keeps of the swap document it read.
Doc(D, s) == [status |-> D.swaps[s].status, recvI |-> D.swaps[s].recvI,
              recvR |-> D.swaps[s].recvR, dispute |-> D.swaps[s].dispute]

isParty(D, s, u) == D.swaps[s].initiator = u \/ D.swaps[s].recipient = u

\* User.findByIdAndUpdate(id, {$inc: {points, stats.totalPointsEarned,
\* stats.totalPointsSpent, stats.swapsCompleted}})
\* granted keeps the history the documents do not: the member's initial
\* points plus every credit and minus every debit a handler applied.
inc(u, dPoints, dEarned, dSpent, dCompleted) ==
  [u EXCEPT !.points = @ + dPoints, !.earned = @ + dEarned,
            !.spent = @ + dSpent, !.swapsCompleted = @ + dCompleted,
            !.granted = @ + dPoints]

\* An item id with no document: not listed yet, or deleted.
noItem(status) ==
  [owner |-> None, points |-> 0, status |-> status, isRedeemable |-> FALSE]

itemExists(D, i) == D.items[i].status \notin {"unlisted", "deleted"}

\* Item.findByIdAndUpdate(id, {status}): no document, no update.
setItemStatus(D, i, status) ==
  IF itemExists(D, i) THEN [D EXCEPT !.items[i].status = status] ELSE D

\* Members as registration and their listings left them: points and
\* stats.totalPointsEarned rise together, nothing is spent yet.
member(pts, listed) ==
  [points |-> pts, earned |-> pts, spent |-> 0, swapsCompleted |-> 0,
   itemsListed |-> listed, achievements |-> << >>,
   granted |-> pts, firstBonuses |-> 0]

\* X holds 40 points and item b, Y holds no points and item a (40 points); Z
\* holds rich points (0 or 40) and no item.
world(rich) ==
  [users |-> [u \in Users |->
       CASE u = "X" -> member(40, 1)
         [] u = "Y" -> member(0, 1)
         [] u = "Z" -> member(rich, 0)],
   items |-> [i \in Items |->
       IF i = "c" THEN noItem("unlisted")
       ELSE [owner |-> IF i = "a" THEN "Y" ELSE "X",
             points |-> IF i = "a" THEN 40 ELSE 22,
             status |-> "active", isRedeemable |-> TRUE]],
   swaps |-> << >>]

\* The collections hold D and no request has been made yet.
startFrom(D) ==
  /\ users = D.users
  /\ items = D.items
  /\ swaps = D.swaps
  /\ procs = [p \in Procs |-> Idle]
  /\ requests = 0
  /\ failures = 0
  /\ response = [op |-> "none", ok |-> TRUE]

start(rich) == startFrom(world(rich))

Init == start(0)

InitConc == start(40)

---------------------------------------------------------------------------
(* POST /api/swaps *)

existingSwap(D, i) ==
  \E s \in DOMAIN D.swaps :
    /\ D.swaps[s].recipientItem = i
    /\ D.swaps[s].status = "pending"
    /\ ~ D.swaps[s].expired

createAllowed(D, u, i, type, ii) ==
  /\ D.items[i].status = "active"
  /\ D.items[i].owner # u
  /\ IF type = "swap"
     THEN /\ ii \in Items
          /\ D.items[ii].owner = u
          /\ D.items[ii].status = "active"
     ELSE /\ ii = None
          /\ D.users[u].points >= D.items[i].points
  /\ ~ existingSwap(D, i)

createStart(D, u, i, type, ii) ==
  [op |-> "create", pc |-> "create", user |-> u, item |-> i,
   owner |-> D.items[i].owner, type |-> type, iitem |-> ii,
   points |-> IF type = "redeem" THEN D.items[i].points ELSE 0]

\* Swap.create(swapData); the pre-save hook pushes the 'created' entry.
\* A create that also reserves the requested item.
createAndReserve(D, h) ==
  R([D EXCEPT !.swaps = Append(@,
       NewSwap(h.user, h.owner, h.item, h.iitem, h.type, "pending", h.points,
               <<"created">>)),
     !.items[h.item].status = "pending"],
    Done(h))

createSave(D, h) ==
  R([D EXCEPT !.swaps = Append(@,
       NewSwap(h.user, h.owner, h.item, h.iitem, h.type, "pending", h.points,
               <<"created">>))],
    Done(h))

---------------------------------------------------------------------------
(* PUT /api/swaps/:id/accept and /reject *)

\* accept() without its checks.
acceptUnchecked(D, u, s) == TRUE

\* swapSchema.methods.accept / reject: the checks before the mutation.
acceptAllowed(D, u, s) ==
  D.swaps[s].recipient = u /\ Doc(D, s).status = "pending"

rejectAllowed(D, u, s) ==
  D.swaps[s].recipient = u /\ Doc(D, s).status = "pending"

\* save() after accept/reject: $set status, $push the timeline entry.
saveStatus(D, s, status, entry) ==
  [D EXCEPT !.swaps[s].status = status,
            !.swaps[s].timeline = Append(@, entry)]

acceptStart(D, u, s) == [op |-> "accept", pc |-> "save", user |-> u, sid |-> s]

acceptSave(D, h) ==
  R(saveStatus(D, h.sid, "accepted", "accepted"), [h EXCEPT !.pc = "itemR"])

\* Item.findByIdAndUpdate(swap.recipientItem, {status: 'sold'})
acceptItemR(D, h) ==
  R(setItemStatus(D, D.swaps[h.sid].recipientItem, "sold"),
    [h EXCEPT !.pc = IF D.swaps[h.sid].initiatorItem # None
                     THEN "itemI" ELSE "pay1"])

\* Item.findByIdAndUpdate(swap.initiatorItem, {status: 'sold'})
acceptItemI(D, h) ==
  R(setItemStatus(D, D.swaps[h.sid].initiatorItem, "sold"),
    [h EXCEPT !.pc = "pay1"])

\* Math.floor((recipientPoints + initiatorPoints) / 4)
\* A quarter of the two items' points, rounded up.
pointsCreditCeil(D, s) ==
  (D.items[D.swaps[s].recipientItem].points
   + (IF D.swaps[s].initiatorItem # None
      THEN D.items[D.swaps[s].initiatorItem].points ELSE 0) + 3) \div 4

pointsCredit(D, s) ==
  (D.items[D.swaps[s].recipientItem].points
   + (IF D.swaps[s].initiatorItem # None
      THEN D.items[D.swaps[s].initiatorItem].points ELSE 0)) \div 4

\* The first ledger update: the initiator's debit (redeem) or credit (swap).
acceptPay1(D, h) ==
  LET sw == D.swaps[h.sid]
      c == pointsCredit(D, h.sid)
  IN R([D EXCEPT !.users[sw.initiator] =
          IF sw.type = "redeem"
          THEN inc(@, - sw.points, 0, sw.points, 0)
          ELSE inc(@, c, c, 0, 0)],
       [h EXCEPT !.pc = "pay2"])

\* The second ledger update: the recipient's credit.
acceptPay2(D, h) ==
  LET sw == D.swaps[h.sid]
      c == pointsCredit(D, h.sid)
  IN R([D EXCEPT !.users[sw.recipient] =
          IF sw.type = "redeem"
          THEN inc(@, sw.points, sw.points, 0, 0)
          ELSE inc(@, c, c, 0, 0)],
       Done(h))

rejectStart(D, u, s) == [op |-> "reject", pc |-> "save", user |-> u, sid |-> s]

rejectSave(D, h) == R(saveStatus(D, h.sid, "rejected", "rejected"), Done(h))

---------------------------------------------------------------------------
(* PUT /api/swaps/:id/receive *)

\* swapSchema.methods.markReceived, on the document the handler read: the
\* caller's received timestamp, and 'completed' once both are set.
markReceived(doc, asInitiator) ==
  LET d == IF asInitiator THEN [doc EXCEPT !.recvI = TRUE]
                          ELSE [doc EXCEPT !.recvR = TRUE]
  IN IF d.recvI /\ d.recvR THEN [d EXCEPT !.status = "completed"] ELSE d

receiveAllowed(D, u, s) == isParty(D, s, u) /\ Doc(D, s).status = "accepted"

receiveStart(D, u, s) ==
  [op |-> "receive", pc |-> "save", user |-> u, sid |-> s,
   doc |-> markReceived(Doc(D, s), D.swaps[s].initiator = u),
   firstI |-> FALSE, firstR |-> FALSE,
   uI |-> D.users[D.swaps[s].initiator], uR |-> D.users[D.swaps[s].recipient]]

\* save(): $set the caller's received timestamp (and status when it became
\* 'completed'), $push 'received' (and 'completed').
receiveSave(D, h) ==
  LET s == h.sid
      asI == D.swaps[s].initiator = h.user
      completed == h.doc.status = "completed"
  IN R([D EXCEPT
          !.swaps[s].recvI = IF asI THEN TRUE ELSE @,
          !.swaps[s].recvR = IF asI THEN @ ELSE TRUE,
          !.swaps[s].status = IF completed THEN "completed" ELSE @,
          !.swaps[s].timeline =
             IF completed THEN @ \o <<"received", "completed">>
             ELSE Append(@, "received")],
       [h EXCEPT !.pc = IF completed THEN "count" ELSE "done"])

\* Swap.countDocuments({$or: [{initiator: u}, {recipient: u}], status: 'completed'})
completedCount(D, u) ==
  Cardinality({s \in DOMAIN D.swaps :
                 isParty(D, s, u) /\ D.swaps[s].status = "completed"})

receiveCount(D, h) ==
  R(D, [h EXCEPT !.pc = "incI",
                 !.firstI = completedCount(D, D.swaps[h.sid].initiator) = 1,
                 !.firstR = completedCount(D, D.swaps[h.sid].recipient) = 1])

reward(first) == completionBonus + (IF first THEN firstSwapBonus ELSE 0)

\* The $inc of the completion reward; firstBonuses counts the times it
\* carried the first-swap bonus.
incReward(u, first) ==
  [inc(u, reward(first), reward(first), 0, 1)
     EXCEPT !.firstBonuses = @ + (IF first THEN 1 ELSE 0)]

receiveIncI(D, h) ==
  R([D EXCEPT !.users[D.swaps[h.sid].initiator] = incReward(@, h.firstI)],
    [h EXCEPT !.pc = "incR"])

receiveIncR(D, h) ==
  R([D EXCEPT !.users[D.swaps[h.sid].recipient] = incReward(@, h.firstR)],
    [h EXCEPT !.pc = "readUsers"])

\* initiator.checkMilestones(), recipient.checkMilestones() on the two
\* documents just read: save() only when totalBonus > 0; it $sets points and
\* stats.totalPointsEarned and $pushes the new achievements.
saveMilestones(D, u, udoc) ==
  IF totalBonus(udoc) > 0
  THEN [D EXCEPT !.users[u].points = checkMilestones(udoc).points,
                 !.users[u].earned = checkMilestones(udoc).earned,
                 !.users[u].achievements = @ \o pushedKeys(udoc),
                 !.users[u].granted = @ + totalBonus(udoc)]
  ELSE D

\* User.findById(swap.initiator), User.findById(swap.recipient)
receiveReadUsers(D, h) ==
  R(D, [h EXCEPT !.pc = "msI",
                 !.uI = D.users[D.swaps[h.sid].initiator],
                 !.uR = D.users[D.swaps[h.sid].recipient]])

receiveMsI(D, h) ==
  R(saveMilestones(D, D.swaps[h.sid].initiator, h.uI), [h EXCEPT !.pc = "msR"])

receiveMsR(D, h) ==
  R(saveMilestones(D, D.swaps[h.sid].recipient, h.uR), Done(h))

---------------------------------------------------------------------------
(* PUT /api/swaps/:id/ship and POST /api/swaps/:id/rate *)

\* swapSchema.methods.markShipped: the checks before the mutation.
shipAllowed(D, u, s) == isParty(D, s, u) /\ Doc(D, s).status = "accepted"

shipStart(D, u, s) == [op |-> "ship", pc |-> "save", user |-> u, sid |-> s]

\* save(): $set the caller's tracking number and shippedAt, $push 'shipped'.
shipSave(D, h) ==
  LET asI == D.swaps[h.sid].initiator = h.user
  IN R([D EXCEPT !.swaps[h.sid].shipI = IF asI THEN TRUE ELSE @,
                 !.swaps[h.sid].shipR = IF asI THEN @ ELSE TRUE,
                 !.swaps[h.sid].timeline = Append(@, "shipped")],
       Done(h))

\* The ratings a request can carry (0 stands for no rating stored).
Ratings == {1, 5}

\* The caller's rating slot on the stored document.
ratingOf(D, u, s) ==
  IF D.swaps[s].initiator = u THEN D.swaps[s].rateI ELSE D.swaps[s].rateR

\* addRating without its test of the caller's existing rating.
rateAgainAllowed(D, u, s) ==
  isParty(D, s, u) /\ Doc(D, s).status = "completed"

\* swapSchema.methods.addRating: the checks before the mutation.
rateAllowed(D, u, s) ==
  /\ isParty(D, s, u)
  /\ Doc(D, s).status = "completed"
  /\ ratingOf(D, u, s) = 0

rateStart(D, u, s, r) ==
  [op |-> "rate", pc |-> "save", user |-> u, sid |-> s, rating |-> r]

\* save(): $set initiatorRating or recipientRating.
rateSave(D, h) ==
  LET asI == D.swaps[h.sid].initiator = h.user
  IN R([D EXCEPT !.swaps[h.sid].rateI = IF asI THEN h.rating ELSE @,
                 !.swaps[h.sid].rateR = IF asI THEN @ ELSE h.rating],
       Done(h))

---------------------------------------------------------------------------
(* POST /api/swaps/:id/dispute and PUT /api/admin/swaps/:id/resolve-dispute *)

\* swapSchema.methods.raiseDispute: the checks before the mutation.
raiseDisputeAllowed(D, u, s) ==
  /\ isParty(D, s, u)
  /\ Doc(D, s).status \in {"accepted", "completed"}
  /\ Doc(D, s).dispute # "open"

raiseDisputeStart(D, u, s) ==
  [op |-> "dispute", pc |-> "save", user |-> u, sid |-> s]

raiseDisputeSave(D, h) ==
  R([D EXCEPT !.swaps[h.sid].dispute = "open",
              !.swaps[h.sid].timeline = Append(@, "disputed")],
    Done(h))

Resolutions == {"favor-initiator", "favor-recipient", "partial-refund", "cancel"}

resolveAllowed(D, s) == Doc(D, s).dispute = "open"

resolveStart(D, s, res) ==
  [op |-> "resolve", sid |-> s, resolution |-> res, doc |-> Doc(D, s),
   pc |-> CASE res \in {"favor-initiator", "cancel"} -> "itemR"
            [] res = "partial-refund" /\ D.swaps[s].type = "redeem" -> "refund"
            [] OTHER -> "save"]

\* A resolution that leaves the requested item as it is.
resolveKeepItemR(D, h) ==
  R(D, [h EXCEPT !.pc = IF D.swaps[h.sid].initiatorItem # None
                        THEN "itemI" ELSE "save"])

\* Item.findByIdAndUpdate(swap.recipientItem, {status: 'active'})
resolveItemR(D, h) ==
  R(setItemStatus(D, D.swaps[h.sid].recipientItem, "active"),
    [h EXCEPT !.pc = IF D.swaps[h.sid].initiatorItem # None
                     THEN "itemI" ELSE "save"])

resolveItemI(D, h) ==
  R(setItemStatus(D, D.swaps[h.sid].initiatorItem, "active"),
    [h EXCEPT !.pc = "save"])

\* Math.floor(swap.points * 0.5)
refundAmount(D, s) == D.swaps[s].points \div 2

\* User.findByIdAndUpdate(swap.initiator, {$inc: {points: refundAmount}})
resolveRefund(D, h) ==
  R([D EXCEPT !.users[D.swaps[h.sid].initiator] =
        inc(@, refundAmount(D, h.sid), 0, 0, 0)],
    [h EXCEPT !.pc = "save"])

resolvedStatus(res) ==
  IF res \in {"favor-initiator", "cancel"} THEN "cancelled" ELSE "completed"

\* swap.save(): $set dispute.status (and the notes), and status when the
\* handler changed it on its document.
resolveSave(D, h) ==
  R([D EXCEPT !.swaps[h.sid].dispute = "resolved",
              !.swaps[h.sid].status =
                 IF h.doc.status # resolvedStatus(h.resolution)
                 THEN resolvedStatus(h.resolution) ELSE @],
    Done(h))

---------------------------------------------------------------------------
(* POST /api/items/:id/buy *)

buyAllowed(D, u, i) ==
  /\ D.items[i].status = "active"
  /\ D.items[i].isRedeemable
  /\ D.items[i].owner # u
  /\ D.users[u].points >= D.items[i].points

\* Swap.countDocuments({initiator, type: 'redeem', status: 'completed'})
purchaseCount(D, u) ==
  Cardinality({s \in DOMAIN D.swaps :
                 /\ D.swaps[s].initiator = u
                 /\ D.swaps[s].type = "redeem"
                 /\ D.swaps[s].status = "completed"})

\* What the transaction's snapshot holds of the documents it goes on to use.
txnSnapshot(D, h) ==
  [seller |-> D.users[h.owner], item |-> D.items[h.item],
   count |-> purchaseCount(D, h.user)]

\* The validation reads, mongoose.startSession(), session.startTransaction().
buyStart(D, u, i) ==
  [op |-> "buy", pc |-> "debit", user |-> u, item |-> i,
   owner |-> D.items[i].owner, points |-> D.items[i].points,
   writes |-> << >>,
   snap |-> txnSnapshot(D, [owner |-> D.items[i].owner, item |-> i, user |-> u])]

\* The writes made with {session}: they are the transaction's own until
\* commitTransaction applies them.
incWrite(u, dPoints, dEarned, dSpent) ==
  [kind |-> "inc", user |-> u, dPoints |-> dPoints, dEarned |-> dEarned,
   dSpent |-> dSpent]

itemWrite(i, status) == [kind |-> "item", item |-> i, status |-> status]

insertWrite(doc) == [kind |-> "insert", doc |-> doc]

applyWrite(D, w) ==
  CASE w.kind = "inc" ->
         [D EXCEPT !.users[w.user] = inc(@, w.dPoints, w.dEarned, w.dSpent, 0)]
    [] w.kind = "item" -> setItemStatus(D, w.item, w.status)
    [] w.kind = "insert" -> [D EXCEPT !.swaps = Append(@, w.doc)]

RECURSIVE applyWrites(_, _)
applyWrites(D, ws) ==
  IF ws = << >> THEN D ELSE applyWrites(applyWrite(D, Head(ws)), Tail(ws))

\* The buyer's debit is the session's first operation: the transaction's
\* snapshot is taken here.
buyDebit(D, h) ==
  R(D, [h EXCEPT !.pc = "credit", !.snap = txnSnapshot(D, h),
                 !.writes = Append(@, incWrite(h.user, - h.points, 0, h.points))])

buyCredit(D, h) ==
  R(D, [h EXCEPT !.pc = "item",
                 !.writes = Append(@, incWrite(h.owner, h.points, h.points, 0))])

\* Item.findByIdAndUpdate(item._id, {status: 'sold'}, {session})
buyItem(D, h) ==
  R(D, [h EXCEPT !.pc = "record",
                 !.writes = Append(@, itemWrite(h.item, "sold"))])

\* purchase.save({session}): the document is built with the entries
\* 'created' and 'completed', and the pre-save hook pushes 'created' on it.
buyRecord(D, h) ==
  R(D, [h EXCEPT !.pc = "count",
                 !.writes = Append(@, insertWrite(
                    NewSwap(h.user, h.owner, h.item, None, "redeem",
                            "completed", h.points,
                            <<"created", "completed", "created">>)))])

\* Swap.countDocuments({initiator, type: 'redeem', status: 'completed'},
\* {session}): the snapshot's count and the record just saved.
buyCount(D, h) ==
  R(D, [h EXCEPT !.pc = IF h.snap.count + 1 = 1 THEN "bonus" ELSE "commit"])

buyBonus(D, h) ==
  R(D, [h EXCEPT !.pc = "commit",
                 !.writes = Append(@, incWrite(h.user, firstPurchaseBonus,
                                               firstPurchaseBonus, 0))])

\* session.commitTransaction()
buyCommit(D, h) ==
  R(applyWrites(D, h.writes), [h EXCEPT !.pc = "populate", !.writes = << >>])

\* purchase.populate(populatePaths)
buyPopulate(D, h) == R(D, Done(h))

\* An abort that keeps what the session wrote so far.
abortWithoutRollback(D, h) == applyWrites(D, h.writes)

\* session.abortTransaction(): none of the session's writes is kept.
abortTransaction(D, h) == D

---------------------------------------------------------------------------
(* POST /api/items and DELETE /api/items/:id *)

\* The points a new listing can ask for.
Prices == {30}

\* req.user is the document the protect middleware loaded before the
\* handler ran.
listStart(D, u, i, p) ==
  [op |-> "list", pc |-> "create", user |-> u, item |-> i, points |-> p,
   reqUser |-> D.users[u], bonus |-> 0]

\* Item.create(itemData): status and isRedeemable take the schema defaults.
listCreate(D, h) ==
  R([D EXCEPT !.items[h.item] =
        [owner |-> h.user, points |-> h.points, status |-> "pending",
         isRedeemable |-> TRUE]],
    [h EXCEPT !.pc = "count"])

\* Item.countDocuments({owner})
userItemCount(D, u) ==
  Cardinality({i \in Items : itemExists(D, i) /\ D.items[i].owner = u})

listCount(D, h) ==
  R(D, [h EXCEPT !.pc = "inc",
                 !.bonus = listingBonus + (IF userItemCount(D, h.user) = 1
                                           THEN firstItemBonus ELSE 0)])

\* req.user.updateOne({$inc: {stats.itemsListed, points, totalPointsEarned}})
listInc(D, h) ==
  R([D EXCEPT !.users[h.user] =
        [inc(@, h.bonus, h.bonus, 0, 0) EXCEPT !.itemsListed = @ + 1]],
    [h EXCEPT !.pc = "milestones"])

\* req.user.checkMilestones(), on the document loaded before the $inc.
listMilestones(D, h) == R(saveMilestones(D, h.user, h.reqUser), Done(h))

deleteAllowed(D, u, i) == itemExists(D, i) /\ D.items[i].owner = u

deleteStart(D, u, i) ==
  [op |-> "delete", pc |-> "remove", user |-> u, item |-> i]

\* Item.findByIdAndDelete(req.params.id)
deleteRemove(D, h) ==
  R([D EXCEPT !.items[h.item] = noItem("deleted")], [h EXCEPT !.pc = "dec"])

\* req.user.updateOne({$inc: {'stats.itemsListed': -1}})
deleteDec(D, h) ==
  R([D EXCEPT !.users[h.user].itemsListed = @ - 1], Done(h))

---------------------------------------------------------------------------
(* A handler's next database call, and a handler run as a whole *)

Step(D, h) ==
  CASE h.op = "create" -> createSave(D, h)
    [] h.op = "accept" /\ h.pc = "save" -> acceptSave(D, h)
    [] h.op = "accept" /\ h.pc = "itemR" -> acceptItemR(D, h)
    [] h.op = "accept" /\ h.pc = "itemI" -> acceptItemI(D, h)
    [] h.op = "accept" /\ h.pc = "pay1" -> acceptPay1(D, h)
    [] h.op = "accept" /\ h.pc = "pay2" -> acceptPay2(D, h)
    [] h.op = "reject" -> rejectSave(D, h)
    [] h.op = "receive" /\ h.pc = "save" -> receiveSave(D, h)
    [] h.op = "receive" /\ h.pc = "count" -> receiveCount(D, h)
    [] h.op = "receive" /\ h.pc = "incI" -> receiveIncI(D, h)
    [] h.op = "receive" /\ h.pc = "incR" -> receiveIncR(D, h)
    [] h.op = "receive" /\ h.pc = "readUsers" -> receiveReadUsers(D, h)
    [] h.op = "receive" /\ h.pc = "msI" -> receiveMsI(D, h)
    [] h.op = "receive" /\ h.pc = "msR" -> receiveMsR(D, h)
    [] h.op = "ship" -> shipSave(D, h)
    [] h.op = "rate" -> rateSave(D, h)
    [] h.op = "dispute" -> raiseDisputeSave(D, h)
    [] h.op = "resolve" /\ h.pc = "itemR" -> resolveItemR(D, h)
    [] h.op = "resolve" /\ h.pc = "itemI" -> resolveItemI(D, h)
    [] h.op = "resolve" /\ h.pc = "refund" -> resolveRefund(D, h)
    [] h.op = "resolve" /\ h.pc = "save" -> resolveSave(D, h)
    [] h.op = "buy" /\ h.pc = "debit" -> buyDebit(D, h)
    [] h.op = "buy" /\ h.pc = "credit" -> buyCredit(D, h)
    [] h.op = "buy" /\ h.pc = "item" -> buyItem(D, h)
    [] h.op = "buy" /\ h.pc = "record" -> buyRecord(D, h)
    [] h.op = "buy" /\ h.pc = "count" -> buyCount(D, h)
    [] h.op = "buy" /\ h.pc = "bonus" -> buyBonus(D, h)
    [] h.op = "buy" /\ h.pc = "commit" -> buyCommit(D, h)
    [] h.op = "buy" /\ h.pc = "populate" -> buyPopulate(D, h)
    [] h.op = "list" /\ h.pc = "create" -> listCreate(D, h)
    [] h.op = "list" /\ h.pc = "count" -> listCount(D, h)
    [] h.op = "list" /\ h.pc = "inc" -> listInc(D, h)
    [] h.op = "list" /\ h.pc = "milestones" -> listMilestones(D, h)
    [] h.op = "delete" /\ h.pc = "remove" -> deleteRemove(D, h)
    [] h.op = "delete" /\ h.pc = "dec" -> deleteDec(D, h)

\* The handler's first k database calls succeed.
RECURSIVE Run(_, _, _)
Run(D, h, k) ==
  IF h.pc = "done" \/ k = 0 THEN R(D, h)
  ELSE LET r == Step(D, h) IN Run(r.db, r.h, k - 1)

\* A database call that throws ends the handler in its catch block: what
\* was written stays written, except inside the purchase's transaction.
thrown(D, h) == IF h.op = "buy" THEN abortTransaction(D, h) ELSE D

Calls == 0..MaxCalls

\* Every request creates at most one exchange record.
SwapIds == 1..MaxRequests

store(D) ==
  /\ users' = D.users
  /\ items' = D.items
  /\ swaps' = D.swaps

\* A request run as a whole: with k = MaxCalls every database call succeeds,
\* with a smaller k the first k succeed and the next one throws (failures
\* counts the calls that threw).  response is the reply the client gets:
\* success, or the catch block's 500.
handle(h, k) ==
  /\ requests' = requests + 1
  /\ response' = [op |-> h.op, ok |-> k = MaxCalls]
  /\ UNCHANGED procs
  /\ IF k = MaxCalls
     THEN LET r == Run(DB, h, k)
          IN r.h.pc = "done" /\ store(r.db) /\ UNCHANGED failures
     ELSE /\ failures < MaxFailures
          /\ LET r == Run(DB, h, k)
             IN r.h.pc # "done" /\ store(thrown(r.db, r.h))
          /\ failures' = failures + 1

---------------------------------------------------------------------------
(* Requests run one at a time *)

Create(u, i, type, ii, k) ==
  /\ requests < MaxRequests
  /\ createAllowed(DB, u, i, type, ii)
  /\ handle(createStart(DB, u, i, type, ii), k)

Accept(u, s, k) ==
  /\ requests < MaxRequests
  /\ s \in DOMAIN swaps
  /\ acceptAllowed(DB, u, s)
  /\ handle(acceptStart(DB, u, s), k)

Reject(u, s, k) ==
  /\ requests < MaxRequests
  /\ s \in DOMAIN swaps
  /\ rejectAllowed(DB, u, s)
  /\ handle(rejectStart(DB, u, s), k)

Receive(u, s, k) ==
  /\ requests < MaxRequests
  /\ s \in DOMAIN swaps
  /\ receiveAllowed(DB, u, s)
  /\ handle(receiveStart(DB, u, s), k)

RaiseDispute(u, s, k) ==
  /\ requests < MaxRequests
  /\ s \in DOMAIN swaps
  /\ raiseDisputeAllowed(DB, u, s)
  /\ handle(raiseDisputeStart(DB, u, s), k)

ResolveDispute(s, res, k) ==
  /\ requests < MaxRequests
  /\ s \in DOMAIN swaps
  /\ resolveAllowed(DB, s)
  /\ handle(resolveStart(DB, s, res), k)

Buy(u, i, k) ==
  /\ requests < MaxRequests
  /\ buyAllowed(DB, u, i)
  /\ handle(buyStart(DB, u, i), k)

\* Time passes beyond a pending swap's expiresAt (older swaps expire first).
Tick(s) ==
  /\ s \in DOMAIN swaps
  /\ swaps[s].status = "pending"
  /\ ~ swaps[s].expired
  /\ \A t \in DOMAIN swaps :
       (t < s /\ swaps[t].status = "pending") => swaps[t].expired
  /\ swaps' = [swaps EXCEPT ![s].expired = TRUE]
  /\ UNCHANGED <<users, items, procs, requests, failures, response>>

Next ==
  \/ \E u \in Users, i \in Items, type \in {"swap", "redeem"},
        ii \in Items \cup {None}, k \in Calls : Create(u, i, type, ii, k)
  \/ \E u \in Users, s \in SwapIds, k \in Calls : Accept(u, s, k)
  \/ \E u \in Users, s \in SwapIds, k \in Calls : Reject(u, s, k)
  \/ \E u \in Users, s \in SwapIds, k \in Calls : Receive(u, s, k)
  \/ \E u \in Users, s \in SwapIds, k \in Calls : RaiseDispute(u, s, k)
  \/ \E s \in SwapIds, res \in Resolutions, k \in Calls :
        ResolveDispute(s, res, k)
  \/ \E u \in Users, i \in Items, k \in Calls : Buy(u, i, k)
  \/ \E s \in SwapIds : Tick(s)

Spec == Init /\ [][Next]_vars

---------------------------------------------------------------------------
(* Requests with their refusals *)

\* The handler's early return (4xx) or the model method's throw before
\* save(): the request is answered without a database write.
refuse(op) ==
  /\ requests < MaxChecked
  /\ requests' = requests + 1
  /\ response' = [op |-> op, ok |-> FALSE]
  /\ UNCHANGED <<users, items, swaps, procs, failures>>

CreateRequest(u, i, type, ii, k) ==
  IF createAllowed(DB, u, i, type, ii)
  THEN requests < MaxChecked /\ Create(u, i, type, ii, k)
  ELSE k = MaxCalls /\ refuse("create")

AcceptRequest(u, s, k) ==
  /\ s \in DOMAIN swaps
  /\ IF acceptAllowed(DB, u, s)
     THEN requests < MaxChecked /\ Accept(u, s, k)
     ELSE k = MaxCalls /\ refuse("accept")

RejectRequest(u, s, k) ==
  /\ s \in DOMAIN swaps
  /\ IF rejectAllowed(DB, u, s)
     THEN requests < MaxChecked /\ Reject(u, s, k)
     ELSE k = MaxCalls /\ refuse("reject")

ShipRequest(u, s, k) ==
  /\ s \in DOMAIN swaps
  /\ requests < MaxChecked
  /\ IF shipAllowed(DB, u, s)
     THEN handle(shipStart(DB, u, s), k)
     ELSE k = MaxCalls /\ refuse("ship")

ReceiveRequest(u, s, k) ==
  /\ s \in DOMAIN swaps
  /\ IF receiveAllowed(DB, u, s)
     THEN requests < MaxChecked /\ Receive(u, s, k)
     ELSE k = MaxCalls /\ refuse("receive")

RateRequest(u, s, r, k) ==
  /\ s \in DOMAIN swaps
  /\ requests < MaxChecked
  /\ IF rateAllowed(DB, u, s)
     THEN handle(rateStart(DB, u, s, r), k)
     ELSE k = MaxCalls /\ refuse("rate")

RaiseDisputeRequest(u, s, k) ==
  /\ s \in DOMAIN swaps
  /\ IF raiseDisputeAllowed(DB, u, s)
     THEN requests < MaxChecked /\ RaiseDispute(u, s, k)
     ELSE k = MaxCalls /\ refuse("dispute")

NextChecked ==
  \/ \E u \in Users, i \in Items, type \in {"swap", "redeem"},
        ii \in Items \cup {None}, k \in Calls : CreateRequest(u, i, type, ii, k)
  \/ \E u \in Users, s \in SwapIds, k \in Calls : AcceptRequest(u, s, k)
  \/ \E u \in Users, s \in SwapIds, k \in Calls : RejectRequest(u, s, k)
  \/ \E u \in Users, s \in SwapIds, k \in Calls : ShipRequest(u, s, k)
  \/ \E u \in Users, s \in SwapIds, k \in Calls : ReceiveRequest(u, s, k)
  \/ \E u \in Users, s \in SwapIds, r \in Ratings, k \in Calls :
        RateRequest(u, s, r, k)
  \/ \E u \in Users, s \in SwapIds, k \in Calls : RaiseDisputeRequest(u, s, k)
  \/ \E u \in Users, i \in Items, k \in Calls : Buy(u, i, k)
  \/ \E s \in SwapIds : Tick(s)

SpecChecked == Init /\ [][NextChecked]_vars

---------------------------------------------------------------------------
(* Requests on items and on swaps *)

List(u, i, p, k) ==
  /\ requests < MaxRequests
  /\ items[i].status = "unlisted"
  /\ handle(listStart(DB, u, i, p), k)

Delete(u, i, k) ==
  /\ requests < MaxRequests
  /\ deleteAllowed(DB, u, i)
  /\ handle(deleteStart(DB, u, i), k)

NextItems ==
  \/ \E u \in Users, i \in Items, p \in Prices, k \in Calls : List(u, i, p, k)
  \/ \E u \in Users, i \in Items, k \in Calls : Delete(u, i, k)
  \/ Next

\* X's item has collected likes: the first listing paid 35 points and each
\* of 33 likes paid 2, none of which ran a milestone check.
liked == [world(0) EXCEPT !.users["X"] = member(101, 1)]

InitItems == startFrom(liked)

SpecItems == InitItems /\ [][NextItems]_vars

---------------------------------------------------------------------------
(* Requests interleaved at their awaits *)

\* The requests a client can send that pass the handler's checks on D.
Requests(D) ==
  {createStart(D, u, i, type, ii) :
     <<u, i, type, ii>> \in
       {q \in Users \X Items \X {"swap", "redeem"} \X (Items \cup {None}) :
          createAllowed(D, q[1], q[2], q[3], q[4])}}
  \cup {acceptStart(D, q[1], q[2]) :
          q \in {q \in Users \X (DOMAIN D.swaps) : acceptAllowed(D, q[1], q[2])}}
  \cup {rejectStart(D, q[1], q[2]) :
          q \in {q \in Users \X (DOMAIN D.swaps) : rejectAllowed(D, q[1], q[2])}}
  \cup {receiveStart(D, q[1], q[2]) :
          q \in {q \in Users \X (DOMAIN D.swaps) : receiveAllowed(D, q[1], q[2])}}
  \cup {raiseDisputeStart(D, q[1], q[2]) :
          q \in {q \in Users \X (DOMAIN D.swaps) : raiseDisputeAllowed(D, q[1], q[2])}}
  \cup {resolveStart(D, q[1], q[2]) :
          q \in {q \in (DOMAIN D.swaps) \X Resolutions : resolveAllowed(D, q[1])}}
  \cup {buyStart(D, q[1], q[2]) :
          q \in {q \in Users \X Items : buyAllowed(D, q[1], q[2])}}

\* The documents an open transaction has written: they stay locked until it
\* commits or aborts.
txnUsers(h) ==
  IF h.op # "buy" THEN {}
  ELSE {h.writes[n].user : n \in {m \in DOMAIN h.writes : h.writes[m].kind = "inc"}}

txnItems(h) ==
  IF h.op # "buy" THEN {}
  ELSE {h.writes[n].item : n \in {m \in DOMAIN h.writes : h.writes[m].kind = "item"}}

lockedUsers(p) == UNION {txnUsers(procs[q]) : q \in Procs \ {p}}

lockedItems(p) == UNION {txnItems(procs[q]) : q \in Procs \ {p}}

\* The user and item documents the handler's next database call writes.
writesUsers(D, h) ==
  CASE h.op \in {"accept", "receive"} /\ h.pc \in {"pay1", "incI"} ->
         {D.swaps[h.sid].initiator}
    [] h.op \in {"accept", "receive"} /\ h.pc \in {"pay2", "incR"} ->
         {D.swaps[h.sid].recipient}
    [] h.op = "receive" /\ h.pc = "msI" /\ totalBonus(h.uI) > 0 ->
         {D.swaps[h.sid].initiator}
    [] h.op = "receive" /\ h.pc = "msR" /\ totalBonus(h.uR) > 0 ->
         {D.swaps[h.sid].recipient}
    [] h.op = "resolve" /\ h.pc = "refund" -> {D.swaps[h.sid].initiator}
    [] h.op = "buy" /\ h.pc \in {"debit", "bonus"} -> {h.user}
    [] h.op = "buy" /\ h.pc = "credit" -> {h.owner}
    [] OTHER -> {}

writesItems(D, h) ==
  CASE h.op \in {"accept", "resolve"} /\ h.pc = "itemR" ->
         {D.swaps[h.sid].recipientItem}
    [] h.op \in {"accept", "resolve"} /\ h.pc = "itemI" ->
         {D.swaps[h.sid].initiatorItem}
    [] h.op = "buy" /\ h.pc = "item" -> {h.item}
    [] OTHER -> {}

touchesLocked(p) ==
  \/ writesUsers(DB, procs[p]) \cap lockedUsers(p) # {}
  \/ writesItems(DB, procs[p]) \cap lockedItems(p) # {}

\* A write outside a transaction waits for the lock.
blocked(p) == procs[p].op # "buy" /\ touchesLocked(p)

\* A write inside the transaction throws a write conflict when the document
\* is locked by another transaction or was changed after the snapshot.
writeConflict(p) ==
  /\ procs[p].op = "buy"
  /\ \/ touchesLocked(p)
     \/ procs[p].pc = "credit" /\ users[procs[p].owner] # procs[p].snap.seller
     \/ procs[p].pc = "item" /\ items[procs[p].item] # procs[p].snap.item

\* The handler goes on to its next call, or replies when it has none left.
finish(p, h, ok) ==
  IF h.pc = "done"
  THEN /\ procs' = [procs EXCEPT ![p] = Idle]
       /\ response' = [op |-> procs[p].op, ok |-> ok]
  ELSE /\ procs' = [procs EXCEPT ![p] = h]
       /\ UNCHANGED response

\* A request arrives: the handler runs its reads and checks.
Begin(p) ==
  /\ procs[p] = Idle
  /\ \A q \in Procs : q < p => procs[q] # Idle
  /\ requests < MaxConcurrent
  /\ \E h \in Requests(DB) : procs' = [procs EXCEPT ![p] = h]
  /\ requests' = requests + 1
  /\ UNCHANGED <<users, items, swaps, failures, response>>

\* The handler's next database call returns.
Advance(p) ==
  /\ procs[p] # Idle
  /\ ~ blocked(p)
  /\ IF writeConflict(p)
     THEN store(abortTransaction(DB, procs[p])) /\ finish(p, Idle, FALSE)
     ELSE LET r == Step(DB, procs[p]) IN store(r.db) /\ finish(p, r.h, TRUE)
  /\ UNCHANGED <<requests, failures>>

\* The handler's next database call throws.
Fail(p) ==
  /\ procs[p] # Idle
  /\ failures < MaxFailures
  /\ store(thrown(DB, procs[p]))
  /\ finish(p, Idle, FALSE)
  /\ failures' = failures + 1
  /\ UNCHANGED requests

NextConc ==
  \/ \E p \in Procs : Begin(p)
  \/ \E p \in Procs : Advance(p)
  \/ \E p \in Procs : Fail(p)

SpecConc == InitConc /\ [][NextConc]_vars

---------------------------------------------------------------------------
(* Concurrent requests on an accepted swap *)

\* The collections after the request h has run to its end on D.
served(D, h) == Run(D, h, MaxCalls).db

\* X asked to redeem item a and Y accepted.
acceptedRedeem ==
  LET d1 == served(world(40), createStart(world(40), "X", "a", "redeem", None))
  IN served(d1, acceptStart(d1, "Y", 1))

InitRace == startFrom(acceptedRedeem)

SpecRace == InitRace /\ [][NextConc]_vars

---------------------------------------------------------------------------
(* Properties *)

holders(i) ==
  {s \in DOMAIN swaps : /\ swaps[s].recipientItem = i
                        /\ swaps[s].status \in {"pending", "accepted"}}

\* C1: each item is referenced as recipientItem by at most one exchange
\* whose status is pending or accepted.
C1_OneReservation == \A i \in Items : Cardinality(holders(i)) <= 1

\* C2: two creates against the same item never both succeed: no item has
\* two pending exchanges that have not expired.
C2_OneCreateWins ==
  \A s, t \in DOMAIN swaps :
    (/\ s # t
     /\ swaps[s].recipientItem = swaps[t].recipientItem
     /\ swaps[s].status = "pending" /\ ~ swaps[s].expired
     /\ ~ swaps[t].expired)
    => swaps[t].status # "pending"

\* C3: no member's points balance is ever negative.
C3_NonNegative == \A u \in Users : users[u].points >= 0

\* C4: every member's points equal totalPointsEarned - totalPointsSpent.
C4_Ledger == \A u \in Users : users[u].points = users[u].earned - users[u].spent

decisions(s) ==
  {n \in DOMAIN swaps[s].timeline :
     swaps[s].timeline[n] \in {"accepted", "rejected"}}

\* C5: of the accepts and rejects of one pending exchange exactly one
\* succeeds: its timeline holds at most one accepted-or-rejected entry.
C5_OneDecision == \A s \in DOMAIN swaps : Cardinality(decisions(s)) <= 1

\* C6: an accept is all-or-nothing: the request leaves users, items and
\* swaps as they were, or as the complete accept leaves them.
C6_AcceptAtomic ==
  [][\A u \in Users, s \in DOMAIN swaps :
       (\E k \in Calls : Accept(u, s, k))
       => \/ UNCHANGED <<users, items, swaps>>
          \/ LET r == Run(DB, acceptStart(DB, u, s), MaxCalls)
             IN <<users', items', swaps'>> = <<r.db.users, r.db.items, r.db.swaps>>]_vars

purchased(u, i) ==
  LET o == items[i].owner
      n == items[i].points
  IN /\ users'[u].points \in {users[u].points - n,
                             users[u].points - n + firstPurchaseBonus}
     /\ users'[u].spent = users[u].spent + n
     /\ users'[o].points = users[o].points + n
     /\ users'[o].earned = users[o].earned + n
     /\ items'[i].status = "sold"
     /\ Len(swaps') = Len(swaps) + 1
     /\ swaps'[Len(swaps')].status = "completed"
     /\ swaps'[Len(swaps')].initiator = u
     /\ swaps'[Len(swaps')].recipientItem = i

\* C7: a purchase is all-or-nothing: the buyer's debit, the seller's
\* credit, the item becoming sold and the completed exchange record all
\* take effect, or users, items and swaps are all left as they were.
C7_PurchaseAtomic ==
  [][\A u \in Users, i \in Items :
       (\E k \in Calls : Buy(u, i, k))
       => \/ purchased(u, i)
          \/ UNCHANGED <<users, items, swaps>>]_vars

\* The only request so far was a purchase; a database call inside its
\* transaction threw and it was answered with the catch block's error.
C7_Witness ==
  /\ requests = 1
  /\ failures = 1
  /\ response = [op |-> "buy", ok |-> FALSE]
  /\ swaps = << >>

\* C8: of two interleaved purchases of one item at most one succeeds: a
\* purchase commits only while the item is still available.
C8_SoldOnce ==
  [][\A p \in Procs :
       (/\ procs[p].op = "buy"
        /\ procs[p].pc = "commit"
        /\ procs'[p].pc = "populate")
       => items[procs[p].item].status = "active"]_vars

\* C9: while an exchange is pending (and not expired) its recipient item
\* is reserved, that is, not in the available state.
C9_Reserved ==
  \A s \in DOMAIN swaps :
    (swaps[s].status = "pending" /\ ~ swaps[s].expired)
    => items[swaps[s].recipientItem].status # "active"

\* Scenario B has run and nothing else: X redeemed Y's item a, Y accepted,
\* both confirmed receipt, no database call threw.
ScenarioB ==
  /\ requests = 4
  /\ failures = 0
  /\ Len(swaps) = 1
  /\ swaps[1].initiator = "X" /\ swaps[1].recipient = "Y"
  /\ swaps[1].recipientItem = "a" /\ swaps[1].type = "redeem"
  /\ swaps[1].status = "completed"
  /\ swaps[1].timeline =
       <<"created", "accepted", "received", "received", "completed">>

\* C10 as stated: after Scenario B X holds exactly 70 points and Y exactly
\* 110.
C10_AsStated ==
  ScenarioB => users["X"].points = 70 /\ users["Y"].points = 110

\* C10: after Scenario B X holds exactly 170 points and Y exactly 210: the
\* completion raises both members' totalPointsEarned to 110, and the
\* milestone totalPointsEarned >= 100 grants each another 100.
C10_ScenarioB ==
  ScenarioB => users["X"].points = 170 /\ users["Y"].points = 210

C10_Witness ==
  /\ ScenarioB
  /\ includes(users["X"].achievements, <<"totalPointsEarned", 100>>)
  /\ includes(users["Y"].achievements, <<"totalPointsEarned", 100>>)

---------------------------------------------------------------------------
(* Failed preconditions *)

\* The reasons for which a create request is refused.
createFails(u, i, type, ii) ==
  \/ items[i].owner = u
  \/ items[i].status # "active"
  \/ /\ type = "swap"
     /\ \/ ii \notin Items
        \/ items[ii].owner # u
        \/ items[ii].status # "active"
  \/ \E s \in DOMAIN swaps :
       /\ swaps[s].recipientItem = i
       /\ swaps[s].status = "pending"
       /\ ~ swaps[s].expired
  \/ type = "redeem" /\ users[u].points < items[i].points

notParty(u, s) == u \notin {swaps[s].initiator, swaps[s].recipient}

\* C11: a request whose precondition fails changes nothing: a refused create
\* (own item, item not active, swap without an owned active item offered,
\* unexpired pending request on the item, redeem with too few points) adds no
\* swap and changes no item or balance; accept, reject, ship, receive, rate
\* and dispute by the wrong actor or in the wrong status change no swap
\* field, item or balance. Stated on the steps that do change a document:
\* none of them is such a request.
C11_RefusedUnchanged ==
  [][(~ UNCHANGED <<users, items, swaps>>) =>
       /\ \A u \in Users, i \in Items, type \in {"swap", "redeem"},
             ii \in Items \cup {None} :
             createFails(u, i, type, ii)
               => ~ \E k \in Calls : CreateRequest(u, i, type, ii, k)
       /\ \A u \in Users, s \in DOMAIN swaps :
             /\ (swaps[s].recipient # u \/ swaps[s].status # "pending")
                  => ~ \E k \in Calls :
                         AcceptRequest(u, s, k) \/ RejectRequest(u, s, k)
             /\ (notParty(u, s) \/ swaps[s].status # "accepted")
                  => ~ \E k \in Calls :
                         ShipRequest(u, s, k) \/ ReceiveRequest(u, s, k)
             /\ (notParty(u, s) \/ swaps[s].status # "completed")
                  => ~ \E k \in Calls, r \in Ratings : RateRequest(u, s, r, k)
             /\ (notParty(u, s) \/ swaps[s].status \notin {"accepted", "completed"})
                  => ~ \E k \in Calls : RaiseDisputeRequest(u, s, k)]_vars

\* An accept by someone other than the recipient of a pending swap was refused.
C11_Witness ==
  /\ response = [op |-> "accept", ok |-> FALSE]
  /\ failures = 0
  /\ requests = 2
  /\ Len(swaps) = 1
  /\ swaps[1].status = "pending"

---------------------------------------------------------------------------
(* Create then reject *)

\* The only two requests so far were a create and its rejection.
createdThenRejected ==
  /\ requests = 2
  /\ failures = 0
  /\ Len(swaps) = 1
  /\ swaps[1].timeline = <<"created", "rejected">>

\* C12: after a create (swap or redeem) followed by the recipient's reject,
\* the requested item and the offered item are active, both members' points
\* and lifetime counters are what they were before the create, and the swap
\* is rejected.
C12_CreateRejectRoundTrip ==
  createdThenRejected =>
    /\ swaps[1].status = "rejected"
    /\ items[swaps[1].recipientItem].status = "active"
    /\ swaps[1].initiatorItem \in Items =>
         items[swaps[1].initiatorItem].status = "active"
    /\ users["X"] = member(40, 1)
    /\ users["Y"] = member(0, 1)

C12_Witness == createdThenRejected /\ swaps[1].type = "swap"

---------------------------------------------------------------------------
(* Repeated receipt *)

\* The number of 'received' entries on a swap's timeline.
receipts(s) ==
  Cardinality({n \in DOMAIN swaps[s].timeline : swaps[s].timeline[n] = "received"})

\* C13: a second markReceived by the same party records no second receipt:
\* the timeline holds one 'received' entry for each party that has a
\* received timestamp, and no more.
C13_OneReceiptPerParty ==
  \A s \in DOMAIN swaps :
    receipts(s) <= (IF swaps[s].recvI THEN 1 ELSE 0)
                   + (IF swaps[s].recvR THEN 1 ELSE 0)

---------------------------------------------------------------------------
(* Dispute resolved by cancelling *)

\* C14: a dispute resolved with cancel or favor-initiator puts the requested
\* item and the offered item (when there is one) back to active, sets the
\* swap to cancelled and changes no member's points or lifetime counters, for
\* swaps and for redeems alike.
C14_CancelFrame ==
  [][\A s \in DOMAIN swaps, res \in {"cancel", "favor-initiator"} :
       ResolveDispute(s, res, MaxCalls) =>
         /\ items'[swaps[s].recipientItem].status = "active"
         /\ swaps[s].initiatorItem \in Items =>
              items'[swaps[s].initiatorItem].status = "active"
         /\ swaps'[s].status = "cancelled"
         /\ users' = users]_vars

\* A disputed redeem whose points moved at accept was cancelled.
C14_Witness ==
  /\ response = [op |-> "resolve", ok |-> TRUE]
  /\ \E s \in DOMAIN swaps :
       /\ swaps[s].type = "redeem"
       /\ swaps[s].status = "cancelled"
       /\ swaps[s].dispute = "resolved"
       /\ "accepted" \in {swaps[s].timeline[n] : n \in DOMAIN swaps[s].timeline}
       /\ users[swaps[s].recipient].points >= swaps[s].points

---------------------------------------------------------------------------
(* Expiry *)

\* C15: a pending swap whose expiresAt has passed is never accepted.
C15_ExpiredNotAccepted ==
  [][\A s \in DOMAIN swaps :
       (swaps[s].expired /\ swaps[s].status = "pending")
         => swaps'[s].status # "accepted"]_vars

---------------------------------------------------------------------------
(* Bonuses granted once *)

\* C16: no member is paid the first-swap bonus more than once.
C16_FirstBonusOnce == \A u \in Users : users[u].firstBonuses <= 1

\* C17: no milestone key is awarded to a member more than once: the
\* member's achievements hold each key at most once.
C17_MilestoneOnce ==
  \A u \in Users : \A m, n \in DOMAIN users[u].achievements :
    users[u].achievements[m] = users[u].achievements[n] => m = n

---------------------------------------------------------------------------
(* Partial refund *)

\* C19: a dispute on a redeem resolved with partial-refund moves half of the
\* swap's points (rounded down) from the recipient to the initiator: the
\* initiator gains it, the recipient loses it, and their points together
\* stay the same.
C19_RefundMoves ==
  [][\A s \in DOMAIN swaps :
       (swaps[s].type = "redeem" /\ ResolveDispute(s, "partial-refund", MaxCalls))
       => /\ users'[swaps[s].initiator].points
               = users[swaps[s].initiator].points + (swaps[s].points \div 2)
          /\ users'[swaps[s].recipient].points
               = users[swaps[s].recipient].points - (swaps[s].points \div 2)
          /\ swaps'[s].status = "completed"]_vars

---------------------------------------------------------------------------
(* Ledger and items *)

\* C18: no credit or debit is lost: every member's points equal the
\* initial points plus all credits granted minus all debits applied.
C18_NothingLost == \A u \in Users : users[u].points = users[u].granted

\* C20: no pending or accepted swap refers to an item whose document was
\* deleted.
C20_NoDanglingItem ==
  \A s \in DOMAIN swaps :
    swaps[s].status \in {"pending", "accepted"} =>
      /\ items[swaps[s].recipientItem].status # "deleted"
      /\ swaps[s].initiatorItem \in Items =>
           items[swaps[s].initiatorItem].status # "deleted"

---------------------------------------------------------------------------
(* Ratings *)

\* C21: each party rates a completed swap at most once: a rating slot is
\* only ever filled while it is empty and the swap is completed, filling one
\* party's slot leaves the other party's slot alone, and a rate request by a
\* party whose slot is filled is refused and changes no swap.
C21_RateOnce ==
  [][/\ \A s \in DOMAIN swaps :
          /\ swaps'[s].rateI # swaps[s].rateI =>
               /\ swaps[s].rateI = 0
               /\ swaps[s].status = "completed"
               /\ swaps'[s].rateR = swaps[s].rateR
          /\ swaps'[s].rateR # swaps[s].rateR =>
               /\ swaps[s].rateR = 0
               /\ swaps[s].status = "completed"
               /\ swaps'[s].rateI = swaps[s].rateI
     /\ (requests' = requests + 1 /\ response'.op = "rate") =>
          \A u \in Users, s \in DOMAIN swaps :
            (isParty(DB, s, u) /\ ratingOf(DB, u, s) # 0
               /\ \E r \in Ratings, k \in Calls : RateRequest(u, s, r, k))
            => (~ response'.ok /\ UNCHANGED swaps)]_vars

\* A rate request was refused on a swap its initiator had already rated.
C21_Witness ==
  /\ response = [op |-> "rate", ok |-> FALSE]
  /\ failures = 0
  /\ requests = 3
  /\ Len(swaps) = 1
  /\ swaps[1].rateI # 0
  /\ swaps[1].rateR = 0

---------------------------------------------------------------------------
(* Milestone failure during completion *)

\* C22: a receive request that completes the swap and pays both parties
\* their completion reward is answered with the swap, not with an error,
\* whatever happens to the milestone check that follows.
C22_MilestoneFailureNotFatal ==
  [][\A s \in DOMAIN swaps :
       (/\ swaps[s].status = "accepted"
        /\ swaps'[s].status = "completed"
        /\ users'[swaps[s].initiator].swapsCompleted
             = users[swaps[s].initiator].swapsCompleted + 1
        /\ users'[swaps[s].recipient].swapsCompleted
             = users[swaps[s].recipient].swapsCompleted + 1)
       => response'.ok]_vars

---------------------------------------------------------------------------
(* Status edges *)

\* The status changes a swap may go through.
Edges ==
  {<<"pending", "accepted">>, <<"pending", "rejected">>,
   <<"pending", "cancelled">>, <<"accepted", "completed">>,
   <<"accepted", "cancelled">>, <<"completed", "cancelled">>}

\* C23: a swap's status only changes along pending -> accepted, rejected or
\* cancelled, accepted -> completed, and accepted or completed -> completed
\* or cancelled; a rejected or cancelled swap never changes status and an
\* accepted swap never becomes rejected, whatever the interleaving.
C23_StatusEdges ==
  [][\A s \in DOMAIN swaps :
       swaps'[s].status # swaps[s].status
         => <<swaps[s].status, swaps'[s].status>> \in Edges]_vars

---------------------------------------------------------------------------
(* Concurrent receipts *)

\* C24: a swap on which both parties have a received timestamp is not in
\* status accepted.
C24_BothReceivedCompletes ==
  \A s \in DOMAIN swaps :
    (swaps[s].recvI /\ swaps[s].recvR) => swaps[s].status # "accepted"

\* The swaps of u that reached completed through markReceived.
completedByReceipt(u) ==
  {s \in DOMAIN swaps :
     /\ isParty(DB, s, u)
     /\ \E n \in DOMAIN swaps[s].timeline : swaps[s].timeline[n] = "received"
     /\ \E n \in DOMAIN swaps[s].timeline : swaps[s].timeline[n] = "completed"}

\* C25: the completion rewards of a swap are granted once: a member's
\* stats.swapsCompleted never exceeds the number of their swaps that were
\* completed by markReceived.
C25_RewardedOnce ==
  \A u \in Users :
    users[u].swapsCompleted <= Cardinality(completedByReceipt(u))

---------------------------------------------------------------------------
(* Resolving a dispute *)

\* C26: the effects of resolving a dispute are applied once: a resolve
\* request changes an item, a balance or the swap only while the stored
\* dispute is still open.
C26_ResolvedOnce ==
  [][\A p \in Procs :
       (/\ procs[p].op = "resolve"
        /\ procs'[p] # procs[p]
        /\ ~ UNCHANGED <<users, items, swaps>>)
       => swaps[procs[p].sid].dispute = "open"]_vars

---------------------------------------------------------------------------
(* Timeline *)

\* C27: every successful request that changes a swap extends its timeline:
\* the old timeline is a strict prefix of the new one.
C27_TimelineGrows ==
  [][\A s \in DOMAIN swaps :
       (requests' = requests + 1 /\ response'.ok /\ swaps'[s] # swaps[s])
       => /\ Len(swaps'[s].timeline) > Len(swaps[s].timeline)
          /\ SubSeq(swaps'[s].timeline, 1, Len(swaps[s].timeline))
               = swaps[s].timeline]_vars

---------------------------------------------------------------------------
(* Goodwill credit at accept *)

\* C28: accepting a swap-type request credits the initiator and the
\* recipient each a quarter (rounded down) of the two items' points, on
\* points and on lifetime earned, debits nobody and marks both items sold;
\* accepting a redeem only moves the swap's points from the initiator to the
\* recipient.
C28_GoodwillCredit ==
  [][\A u \in Users, s \in DOMAIN swaps :
       Accept(u, s, MaxCalls) =>
         LET sw == swaps[s]
             I == sw.initiator
             Rc == sw.recipient
         IN IF sw.type = "swap"
            THEN LET c == (items[sw.recipientItem].points
                           + items[sw.initiatorItem].points) \div 4
                 IN /\ users'[I] = [users[I] EXCEPT !.points = @ + c,
                                      !.earned = @ + c, !.granted = @ + c]
                    /\ users'[Rc] = [users[Rc] EXCEPT !.points = @ + c,
                                       !.earned = @ + c, !.granted = @ + c]
                    /\ \A v \in Users \ {I, Rc} : users'[v] = users[v]
                    /\ items'[sw.recipientItem].status = "sold"
                    /\ items'[sw.initiatorItem].status = "sold"
            ELSE /\ users'[I].earned = users[I].earned
                 /\ users'[I].points = users[I].points - sw.points
                 /\ users'[Rc].points = users[Rc].points + sw.points
                 /\ users'[Rc].earned = users[Rc].earned + sw.points]_vars

\* A swap of items a (40 points) and b (22 points) was accepted: 62 / 4
\* rounds down to 15.
C28_Witness ==
  /\ response = [op |-> "accept", ok |-> TRUE]
  /\ requests = 2
  /\ Len(swaps) = 1
  /\ swaps[1].type = "swap"
  /\ swaps[1].status = "accepted"
  /\ users[swaps[1].recipient].earned = 15

---------------------------------------------------------------------------
(* Dispute and status *)

---------------------------------------------------------------------------
(* Items given away *)

givenTo(i) ==
  {s \in DOMAIN swaps : /\ swaps[s].status \in {"accepted", "completed"}
                        /\ i \in {swaps[s].recipientItem, swaps[s].initiatorItem}}

\* C30: no item is given away twice: each item is referenced, as recipient
\* item or as initiator item, by at most one accepted or completed swap.
C30_GivenAwayOnce == \A i \in Items : Cardinality(givenTo(i)) <= 1

====
